---- MODULE Spec2Model ----
(***************************************************************************)
(* Optimistic transaction queue of the typing game (hook                   *)
(* useTypingGameQueue) together with the part of the TypingGame component  *)
(* that drives it: start request, typed letters, session timer, results.   *)
(*                                                                         *)
(* One action is one JavaScript task (event handler, timer callback or     *)
(* continuation of an awaited network call) followed by the React commit   *)
(* and the effects that run after it.                                      *)
(*                                                                         *)
(* The contracts TypingSpeedGame and GamePaymaster are state machines of   *)
(* their own (SpecGame, SpecPaymaster): one action is one transaction or   *)
(* call, a revert leaves the storage as it was.                            *)
(*                                                                         *)
(* The typing state of the component (localGameState) is a state machine   *)
(* of its own as well (SpecTyping): the hook never reads it, and it reads  *)
(* the hook's state only in the guard of its handlers, which is an input   *)
(* there.  Its calls of submitLetter and completeWord are recorded in      *)
(* typingCall.                                                             *)
(***************************************************************************)
EXTENDS Integers, Sequences, FiniteSets, TLC

\* ---------------------------------------------------------------- bounds
MaxSessions == 2        \* start requests in a run of Spec
MaxLetters == 1         \* accepted letters in a run of Spec and SpecOne
MaxRecords == 4         \* records created in a run of Spec and SpecBurst
BurstLetters == 3       \* accepted letters in a run of SpecBurst
GameTicks == 1          \* timer ticks standing for GAME_DURATION seconds
MaxRejects == 1         \* dispatches that throw in one run
MaxReceipts == 1        \* records whose receipt the monitor observes
MaxOvertime == 1        \* seconds below zero that timeRemaining is tracked
MaxWords == 1           \* completed words in a session of SpecOne
MaxChainLetters == 1    \* TypingSpeedGame: letters recorded
MaxLetterCode == 1      \* TypingSpeedGame: largest bytes1 value submitted
MaxCount == 1           \* TypingSpeedGame: largest total given to completeGame
MaxBlocks == 1          \* blocks mined after the deployment
MaxFee == 1             \* GamePaymaster: largest maxFeePerGas
MaxSponsored == 1       \* GamePaymaster: transactions paid for
MaxInput == 3           \* TypingGame: longest value of the input field
MaxTyped == 3           \* TypingGame: largest totalLettersTyped

\* ------------------------------------------------------------- constants
Null == -1              \* JavaScript null (gameSession, nonceRef, results)
NoHash == 0             \* LetterTransaction.hash undefined
MockHash == -2          \* `0x${'f'.repeat(64)}`
CountdownStart == 3     \* countdown seconds
InitialNonce == 0       \* account's transaction count before the run
MinTime == 0 - MaxOvertime  \* lower cap of timeRemaining
LetterWindow == 33      \* seconds after startTime in which letters count
MaxLeaderboardSize == 100   \* MAX_LEADERBOARD_SIZE
InitialMaxGas == 1000000    \* maxGasPerTransaction set by the constructor

VARIABLES
    gameState,          \* GameState of the hook
    transactions,       \* LetterTransaction[] of the hook
    nonceRef,           \* nonceRef.current
    countdownRef,       \* countdownRef.current: id of an interval or Null
    intervals,          \* running countdown intervals: id -> local `count`
    ring,               \* pending 1000ms timers, in the order they fire
    tasks,              \* sendTransactionAsync invocations, by record id
    simTimers,          \* ids with a simulateConfirmation timeout pending
    ffPending,          \* the 600ms timeout of completeGame is pending
    ffQueue,            \* fastForwardedTxs whose replay timeout is pending
    complDue,           \* simulateConfirmation timeouts that fire before
                        \* the next timeout of completeGame does
    netNonce,           \* network: pending-inclusive transaction count
    chainSession,       \* network: currentGameSession of the contract
    timeRemaining,      \* TypingGame: timeRemaining
    gameCompletedRef,   \* TypingGame: gameCompletedRef.current
    results,            \* App: lastGameResults.totalLetters or Null
    walletClient,       \* useWalletClient().data is defined
    limits,             \* bounds of the run, fixed by the initial state
    hist,               \* history, by record id (observation only)
    lastWasLetter,      \* history: the last handler that ran was submitLetter
    lastPoll,           \* history: id of the record whose receipt poll
                        \* found no receipt in the last step, or Null
    sinceReset,         \* history: resetGame ran and no startGame
                        \* has added a record since
    resets,             \* history: calls of resetGame so far
    game,               \* storage of the contract TypingSpeedGame
    blockTimestamp,     \* block.timestamp of the next transaction
    blockNumber,        \* block.number of the next transaction
    gameCall,           \* history: the transaction to TypingSpeedGame made
                        \* in the last step, if any
    paymaster,          \* storage and balance of the contract GamePaymaster
    payCall,            \* history: the call to GamePaymaster made in the
                        \* last step, if any
    localGameState,     \* TypingGame: LocalGameState
    typingCall,         \* history: the input event handled in the last
                        \* step and the calls of the hook it made
    wordCalls           \* history: calls of submitLetter made since the
                        \* current word became the current word

hookVars == <<gameState, transactions, nonceRef, countdownRef, intervals, ring,
          tasks, simTimers, ffPending, ffQueue, complDue, netNonce,
          chainSession, timeRemaining, gameCompletedRef, results,
          walletClient, limits, hist, lastWasLetter, lastPoll,
          sinceReset, resets>>

gameVars == <<game, blockTimestamp, blockNumber, gameCall>>

paymasterVars == <<paymaster, payCall>>

chainVars == <<gameVars, paymasterVars>>

typingVars == <<localGameState, typingCall, wordCalls>>

vars == <<hookVars, chainVars, typingVars>>

\* --------------------------------------------------------------- helpers
Max(a, b) == IF a >= b THEN a ELSE b

Ids == 1..Len(transactions)

\* tx.status === 'pending' || tx.status === 'sent'
IsOpen(tx) == tx.status = "pending" \/ tx.status = "sent"

Terminal(tx) == tx.status = "confirmed" \/ tx.status = "failed"

OpenTxs(txs) == {i \in 1..Len(txs) : IsOpen(txs[i])}

\* !gameState.gameSession (null and 0 are both falsy)
NoSession(gs) == gs.gameSession = Null \/ gs.gameSession = 0

\* SessionState.phase of the specification, read off the GameState flags
Phase(gs) ==
    IF gs.isCompleting THEN "completing"
    ELSE IF gs.countdown > 0 THEN "counting-down"
    ELSE IF gs.isActive THEN "active"
    ELSE "idle"

CountOfType(txs, t) == Cardinality({i \in 1..Len(txs) : txs[i].type = t})

\* prev.map(tx => tx.id === txId ? { ...tx, changes } : tx), where `new`
\* is the changed copy of the record with that id
MapTx(txs, id, new) ==
    [i \in 1..Len(txs) |-> IF txs[i].id = id THEN new ELSE txs[i]]

InitialGameState ==
    [isActive |-> FALSE, isCompleting |-> FALSE, gameSession |-> Null,
     localLetterCount |-> 0, localWordCount |-> 0, countdown |-> 0]

NewTx(id, type, session) ==
    [id |-> id, type |-> type, status |-> "pending", hash |-> NoHash,
     fastForwarded |-> "undefined", gameSession |-> session,
     error |-> "none"]

NewHist(chained) ==
    [undone |-> 0, fails |-> 0, receipt |-> FALSE, chained |-> chained]

\* ----------------------------------------------------- nonce sequencer
\* getNextNonce up to its first await: with a cached value the increment
\* is synchronous; with an empty cache the call suspends on
\* getTransactionCount and the task waits in "fetch".
NextNonceCached(ref) == ref + 1

\* position of a fresh sendTransactionAsync after `await getNextNonce()`
AfterNonce(type) == IF type = "startGame" THEN "simulate" ELSE "write"

\* sendTransactionAsync up to its first await; without a wallet client it
\* logs and returns ("skipped").  `final` holds the counts passed by
\* completeGame.
NewTask(ref, type) ==
    IF ~walletClient
    THEN [pc |-> "skipped", nonce |-> Null, result |-> Null, final |-> <<>>]
    ELSE IF ref = Null
    THEN [pc |-> "fetch", nonce |-> Null, result |-> Null, final |-> <<>>]
    ELSE [pc |-> AfterNonce(type), nonce |-> NextNonceCached(ref),
          result |-> Null, final |-> <<>>]

\* nonceRef.current after that part of the call
RefAfterCall(ref) ==
    IF ~walletClient \/ ref = Null THEN ref ELSE NextNonceCached(ref)

\* ------------------------------------------------------ record updates
\* variant of MarkSent that skips 'sent' and records the dispatch as confirmed
MarkSentAsConfirmed(tx, hash, session) ==
    [tx EXCEPT !.hash = hash, !.status = "confirmed",
               !.gameSession = IF tx.type = "startGame" THEN session
                               ELSE tx.gameSession]

\* { ...tx, hash, status: 'sent' } (startGame also stores gameSession)
MarkSent(tx, hash, session) ==
    [tx EXCEPT !.hash = hash, !.status = "sent",
               !.gameSession = IF tx.type = "startGame" THEN session
                               ELSE tx.gameSession]

\* variant of SimulatedConfirm that flags the record like a receipt does
SimulatedConfirmAsReceipt(tx) ==
    [tx EXCEPT !.status = "confirmed", !.fastForwarded = "false"]

\* simulateConfirmation: { ...tx, status: 'confirmed', fastForwarded: true }
SimulatedConfirm(tx) ==
    [tx EXCEPT !.status = "confirmed", !.fastForwarded = "true"]

\* confirmation monitor: { ...t, status: 'confirmed', fastForwarded: false }
ReceiptConfirm(tx) ==
    [tx EXCEPT !.status = "confirmed", !.fastForwarded = "false"]

\* catch block: { ...tx, status: 'failed', error: message }
MarkFailed(tx, message) ==
    [tx EXCEPT !.status = "failed", !.error = message]

\* fastForwardTransactions: copy of an open record, confirmed
FastForwarded(tx) ==
    [tx EXCEPT !.status = "confirmed",
               !.hash = IF tx.hash = NoHash THEN MockHash ELSE tx.hash,
               !.fastForwarded = "true"]

\* variant of Rollback that takes back a letter for every record that is
\* not a startGame
RollbackAnyType(gs, type) ==
    IF type = "startGame"
    THEN [gs EXCEPT !.isActive = FALSE, !.gameSession = Null,
                    !.countdown = 0]
    ELSE [gs EXCEPT !.localLetterCount = Max(0, gs.localLetterCount - 1)]

\* rollback of the catch block, by record type
Rollback(gs, type) ==
    IF type = "startGame"
    THEN [gs EXCEPT !.isActive = FALSE, !.gameSession = Null,
                    !.countdown = 0]
    ELSE IF type = "letter"
    THEN [gs EXCEPT !.localLetterCount = Max(0, gs.localLetterCount - 1)]
    ELSE gs

\* variant of IsNonceError that recognises no sequencing conflict
NeverNonceError(message) == FALSE

\* error instanceof Error && error.message.includes('nonce')
IsNonceError(message) == message = "nonce"

\* -------------------------------------------------------------- timers
\* Timers with a delay of 1000ms (the countdown intervals of startGame, the
\* game timer interval of TypingGame, the finishing timeout of
\* completeGame) fire in the order of their registration: `ring` lists
\* them in that order, an interval that fired goes to the back.  An entry
\* registered while the 600ms timeout of completeGame is pending fires
\* after that timeout (gated).
RingEntry(kind, id, gated) == [kind |-> kind, id |-> id, gated |-> gated]

IsHead(rg, kind, id) ==
    /\ rg # <<>>
    /\ Head(rg).kind = kind /\ Head(rg).id = id
    /\ Head(rg).gated => ~ffPending

RingWithout(rg, kind, id) ==
    LET keep(e) == ~(e.kind = kind /\ e.id = id) IN SelectSeq(rg, keep)

\* the entry that fired is the head; an interval is armed again
Rearm(rg) == Append(Tail(rg), [Head(rg) EXCEPT !.gated = ffPending])

\* ------------------------------------------------------------- effects
\* completion monitor effect: with isCompleting and no open record the
\* game is finished in the commit that follows.
CompletionEffect(gs, txs) ==
    IF gs.isCompleting /\ OpenTxs(txs) = {}
    THEN [gs EXCEPT !.isCompleting = FALSE, !.gameSession = Null]
    ELSE gs

\* results effect of TypingGame: emits on isCompleting true -> false with
\* timeRemaining === 0; `res` is the value of lastGameResults before it.
ResultsEffect(wasCompleting, gs, tr, res) ==
    IF wasCompleting /\ ~gs.isCompleting /\ tr = 0
    THEN gs.localLetterCount
    ELSE res

\* game timer effect of TypingGame, dependencies [isActive, countdown]
TimerOn(gs) == gs.isActive /\ gs.countdown = 0

TimerDepsChanged(gs) ==
    gs.isActive # gameState.isActive \/ gs.countdown # gameState.countdown

GameTimerEffect(gs, rg) ==
    IF ~TimerDepsChanged(gs) THEN rg
    ELSE IF TimerOn(gs)
    THEN Append(RingWithout(rg, "game", 0), RingEntry("game", 0, ffPending))
    ELSE RingWithout(rg, "game", 0)

\* commit of one task: state updates, then the effects
Commit(gs, txs, tr, res, rg, completed) ==
    LET done == CompletionEffect(gs, txs) IN
    /\ gameState' = done
    /\ transactions' = txs
    /\ timeRemaining' = tr
    /\ results' = ResultsEffect(gameState.isCompleting \/ gs.isCompleting,
                                done, tr, res)
    /\ ring' = GameTimerEffect(gs, rg)
    /\ gameCompletedRef' = IF TimerDepsChanged(gs) /\ TimerOn(gs)
                           THEN FALSE ELSE completed

\* a commit of the hook that leaves the timers of TypingGame alone
CommitTx(gs, txs) ==
    Commit(gs, txs, timeRemaining, results, ring, gameCompletedRef)

\* ------------------------------------------- contract TypingSpeedGame
\* accounts that send transactions to the contract
PlayerSeq == <<"alice", "bob", "carol">>

Players == {PlayerSeq[i] : i \in 1..Len(PlayerSeq)}

\* the accounts that send transactions in this run
Callers == {PlayerSeq[i] : i \in 1..limits.players}

\* address(0), the player of a score that was never written
NoAddress == "0x0"

\* bytes1 values submitted as letters; 0 is the empty letter 0x00
Letters == 0..MaxLetterCode

\* default value of playerScores[player]
NoScore ==
    [player |-> NoAddress, totalLetters |-> 0, totalWords |-> 0,
     bestLettersPerGame |-> 0, gamesPlayed |-> 0]

\* storage after deployment; gameSessions and gameSessionLetters hold the
\* entries 1..currentGameSession of the mappings
DeployedGame ==
    [gameSessions |-> <<>>, gameSessionLetters |-> <<>>,
     playerScores |-> [p \in Players |-> NoScore],
     currentGameSession |-> 0, totalLettersSubmitted |-> 0,
     totalWordsSubmitted |-> 0, totalGamesPlayed |-> 0,
     leaderboard |-> <<>>,
     leaderboardPosition |-> [p \in Players |-> 0]]

NoCall ==
    [fn |-> "none", sender |-> NoAddress, letter |-> 0, session |-> 0,
     error |-> "none", returned |-> 0]

DeployedGameContract ==
    /\ game = DeployedGame
    /\ blockTimestamp = 0
    /\ blockNumber = 0
    /\ gameCall = NoCall

\* modifier validGameSession
ValidGameSession(g, session) ==
    session > 0 /\ session <= g.currentGameSession

\* modifier onlyGamePlayer
OnlyGamePlayer(g, session, sender) ==
    g.gameSessions[session].player = sender

\* the GameSession written by startGame
NewSession(sender, now) ==
    [player |-> sender, startTime |-> now, endTime |-> 0,
     totalLetters |-> 0, totalWords |-> 0, completed |-> FALSE]

\* startGame that writes the session under the current id
GameStartedSameId(g, sender, now) ==
    [g EXCEPT !.gameSessions = Append(@, NewSession(sender, now)),
              !.gameSessionLetters = Append(@, <<>>)]

\* storage after startGame
GameStarted(g, sender, now) ==
    [g EXCEPT !.currentGameSession = @ + 1,
              !.gameSessions = Append(@, NewSession(sender, now)),
              !.gameSessionLetters = Append(@, <<>>)]

\* submitLetter without the check of the block time
SubmitLetterErrorNoWindow(g, sender, letter, session, now) ==
    IF ~ValidGameSession(g, session) THEN "Invalid game session"
    ELSE IF ~OnlyGamePlayer(g, session, sender) THEN "Not the game player"
    ELSE IF g.gameSessions[session].completed THEN "Game already completed"
    ELSE IF letter = 0 THEN "Letter cannot be empty"
    ELSE "none"

\* the require that fails in submitLetter, in the order of evaluation
SubmitLetterError(g, sender, letter, session, now) ==
    IF ~ValidGameSession(g, session) THEN "Invalid game session"
    ELSE IF ~OnlyGamePlayer(g, session, sender) THEN "Not the game player"
    ELSE IF g.gameSessions[session].completed THEN "Game already completed"
    ELSE IF letter = 0 THEN "Letter cannot be empty"
    ELSE IF ~(now <= g.gameSessions[session].startTime + LetterWindow)
    THEN "Game time expired"
    ELSE "none"

\* storage after a submitLetter that passed its checks
LetterSubmitted(g, sender, letter, session, now, number) ==
    [g EXCEPT !.gameSessionLetters[session] =
                  Append(@, [player |-> sender, letter |-> letter,
                             timestamp |-> now, blockNumber |-> number,
                             gameSession |-> session]),
              !.totalLettersSubmitted = @ + 1]

\* completeGame without the check of the completed flag
CompleteGameErrorNoFlag(g, sender, session) ==
    IF ~ValidGameSession(g, session) THEN "Invalid game session"
    ELSE IF ~OnlyGamePlayer(g, session, sender) THEN "Not the game player"
    ELSE "none"

\* the require that fails in completeGame, in the order of evaluation
CompleteGameError(g, sender, session) ==
    IF ~ValidGameSession(g, session) THEN "Invalid game session"
    ELSE IF ~OnlyGamePlayer(g, session, sender) THEN "Not the game player"
    ELSE IF g.gameSessions[session].completed THEN "Game already completed"
    ELSE "none"

\* _bubbleUp, with index counted from 1
RECURSIVE BubbleUp(_, _)
BubbleUp(g, index) ==
    IF index <= 1 THEN g
    ELSE LET currentPlayer == g.leaderboard[index]
             parentPlayer == g.leaderboard[index - 1]
         IN IF g.playerScores[currentPlayer].totalLetters
                  > g.playerScores[parentPlayer].totalLetters
            THEN BubbleUp(
                   [g EXCEPT !.leaderboard[index] = parentPlayer,
                             !.leaderboard[index - 1] = currentPlayer,
                             !.leaderboardPosition[parentPlayer] = index,
                             !.leaderboardPosition[currentPlayer]
                                  = index - 1],
                   index - 1)
            ELSE g

\* _updateLeaderboard that leaves a new entry at the end of the array
UpdateLeaderboardUnsorted(g, player) ==
    LET size == Len(g.leaderboard) IN
    IF g.leaderboardPosition[player] = 0 /\ size < limits.board
    THEN [g EXCEPT !.leaderboard = Append(@, player),
                   !.leaderboardPosition[player] = size + 1]
    ELSE g

\* _updateLeaderboard that keeps the position of a replaced player
UpdateLeaderboardStalePosition(g, player) ==
    LET size == Len(g.leaderboard)
        lastPlayer == g.leaderboard[size]
    IN
    IF g.leaderboardPosition[player] = 0
    THEN IF size < limits.board
         THEN BubbleUp([g EXCEPT !.leaderboard = Append(@, player),
                                 !.leaderboardPosition[player] = size + 1],
                       size + 1)
         ELSE IF g.playerScores[player].totalLetters
                    > g.playerScores[lastPlayer].totalLetters
         THEN BubbleUp([g EXCEPT !.leaderboard[size] = player,
                                 !.leaderboardPosition[player] = size],
                       size)
         ELSE g
    ELSE BubbleUp(g, g.leaderboardPosition[player])

\* _updateLeaderboard
UpdateLeaderboard(g, player) ==
    LET size == Len(g.leaderboard)
        lastPlayer == g.leaderboard[size]
    IN
    IF g.leaderboardPosition[player] = 0
    THEN IF size < limits.board
         THEN BubbleUp([g EXCEPT !.leaderboard = Append(@, player),
                                 !.leaderboardPosition[player] = size + 1],
                       size + 1)
         ELSE IF g.playerScores[player].totalLetters
                    > g.playerScores[lastPlayer].totalLetters
         THEN BubbleUp([g EXCEPT !.leaderboardPosition[lastPlayer] = 0,
                                 !.leaderboard[size] = player,
                                 !.leaderboardPosition[player] = size],
                       size)
         ELSE g
    ELSE BubbleUp(g, g.leaderboardPosition[player])

\* storage after a completeGame that passed its checks
GameCompleted(g, sender, letters, words, session, now) ==
    LET old == g.playerScores[sender]
        score == [player |-> sender,
                  totalLetters |-> old.totalLetters + letters,
                  totalWords |-> old.totalWords + words,
                  bestLettersPerGame |->
                      IF letters > old.bestLettersPerGame THEN letters
                      ELSE old.bestLettersPerGame,
                  gamesPlayed |-> old.gamesPlayed + 1]
    IN UpdateLeaderboard(
         [g EXCEPT !.gameSessions[session] =
                       [@ EXCEPT !.endTime = now,
                                 !.totalLetters = letters,
                                 !.totalWords = words,
                                 !.completed = TRUE],
                   !.playerScores[sender] = score,
                   !.totalWordsSubmitted = @ + words,
                   !.totalGamesPlayed = @ + 1],
         sender)

\* a transaction calling startGame()
ContractStartGame(sender) ==
    /\ game.currentGameSession < limits.sessions
    /\ game' = GameStarted(game, sender, blockTimestamp)
    /\ gameCall' = [NoCall EXCEPT
                       !.fn = "startGame", !.sender = sender,
                       !.returned = GameStarted(game, sender, blockTimestamp)
                                       .currentGameSession]
    /\ UNCHANGED <<blockTimestamp, blockNumber>>

\* a transaction calling submitLetter(letter, session)
ContractSubmitLetter(sender, letter, session) ==
    LET error == SubmitLetterError(game, sender, letter, session,
                                   blockTimestamp)
    IN
    /\ error = "none" => game.totalLettersSubmitted < limits.letters
    /\ game' = IF error = "none"
               THEN LetterSubmitted(game, sender, letter, session,
                                    blockTimestamp, blockNumber)
               ELSE game
    /\ gameCall' = [NoCall EXCEPT
                       !.fn = "submitLetter", !.sender = sender,
                       !.letter = letter, !.session = session,
                       !.error = error]
    /\ UNCHANGED <<blockTimestamp, blockNumber>>

\* a transaction calling completeGame(letters, words, session)
ContractCompleteGame(sender, letters, words, session) ==
    LET error == CompleteGameError(game, sender, session) IN
    /\ game' = IF error = "none"
               THEN GameCompleted(game, sender, letters, words, session,
                                  blockTimestamp)
               ELSE game
    /\ gameCall' = [NoCall EXCEPT
                       !.fn = "completeGame", !.sender = sender,
                       !.session = session, !.error = error]
    /\ UNCHANGED <<blockTimestamp, blockNumber>>

\* the next block, at the end of the letter window or one second later
BlockAdvance(seconds) ==
    /\ blockNumber < limits.blocks
    /\ blockNumber' = blockNumber + 1
    /\ blockTimestamp' = blockTimestamp + seconds
    /\ gameCall' = NoCall
    /\ UNCHANGED game

NextGame ==
    /\ \/ \E p \in Callers : ContractStartGame(p)
       \/ \E p \in Callers, l \in Letters,
             n \in 0..(game.currentGameSession + 1) :
             ContractSubmitLetter(p, l, n)
       \/ \E p \in Callers, l \in 0..limits.counts, w \in 0..limits.words,
             n \in 0..(game.currentGameSession + 1) :
             ContractCompleteGame(p, l, w, n)
       \/ \E seconds \in {LetterWindow, LetterWindow + 1} :
             BlockAdvance(seconds)
    /\ UNCHANGED <<hookVars, paymasterVars, typingVars>>

\* ================================================= TypingGame: typing
\* characters of the input field; words are sequences of characters
Space == " "

Chars == {"a", "b", Space}

\* SAMPLE_WORDS, scaled down to two words over two letters
SampleWords == {<<"a", "b">>, <<"b">>}

\* generateGameWords: the sample words in a random order
GameWordLists ==
    {ws \in [1..Cardinality(SampleWords) -> SampleWords] :
        \A i, j \in DOMAIN ws : i # j => ws[i] # ws[j]}

\* gameWords[currentWordIndex] where it is undefined
NoWord == <<>>

\* useState<LocalGameState>
InitialLocalGameState ==
    [currentWordIndex |-> 0, typedInput |-> <<>>, wordsCompleted |-> <<>>,
     gameWords |-> <<>>, totalLettersTyped |-> 0]

NoTypingCall ==
    [fn |-> "none", value |-> <<>>, active |-> FALSE, submitted |-> <<>>,
     completedWord |-> FALSE]

TypingMounted ==
    /\ localGameState = InitialLocalGameState
    /\ typingCall = NoTypingCall
    /\ wordCalls = 0

\* String.prototype.trim, for the space character
RECURSIVE Trim(_)
Trim(v) ==
    IF v = <<>> THEN v
    ELSE IF Head(v) = Space THEN Trim(Tail(v))
    ELSE IF v[Len(v)] = Space THEN Trim(SubSeq(v, 1, Len(v) - 1))
    ELSE v

EndsWithSpace(v) == v # <<>> /\ v[Len(v)] = Space

\* prev.gameWords[prev.currentWordIndex]
CurrentWord(st) ==
    IF st.currentWordIndex + 1 \in DOMAIN st.gameWords
    THEN st.gameWords[st.currentWordIndex + 1]
    ELSE NoWord

\* the comparison of the new letter without the comparison
AnyLetter(value, word) == TRUE

\* newLetter === expectedLetter
LetterMatches(value, word) == value[Len(value)] = word[Len(value)]

\* handleInputChange calls submitLetter for this value
SubmitsLetter(st, value) ==
    /\ CurrentWord(st) # NoWord
    /\ Len(value) > Len(st.typedInput)
    /\ Len(value) <= Len(CurrentWord(st))
    /\ LetterMatches(value, CurrentWord(st))

\* handleInputChange takes the word as completed by this value
CompletesWord(st, value) ==
    /\ CurrentWord(st) # NoWord
    /\ \/ EndsWithSpace(value) /\ Trim(value) = CurrentWord(st)
       \/ value = CurrentWord(st)

\* the state after the word was completed with the input `completed`
WordDone(st, completed) ==
    IF st.currentWordIndex + 1 < Len(st.gameWords)
    THEN [st EXCEPT !.currentWordIndex = @ + 1, !.typedInput = <<>>,
                    !.wordsCompleted = Append(@, completed)]
    ELSE [st EXCEPT !.typedInput = <<>>,
                    !.wordsCompleted = Append(@, completed)]

\* the updater of handleInputChange
InputChanged(st, value) ==
    LET grown == IF Len(value) > Len(st.typedInput) THEN 1 ELSE 0 IN
    IF CurrentWord(st) = NoWord THEN st
    ELSE IF CompletesWord(st, value)
    THEN [WordDone(st, IF EndsWithSpace(value) THEN Trim(value) ELSE value)
             EXCEPT !.totalLettersTyped = @ + grown]
    ELSE [st EXCEPT !.typedInput = value, !.totalLettersTyped = @ + grown]

\* values the input field can take after one edit of `input`: a typed
\* character, a deleted last character, or the cleared field
Edits(input) ==
    {v \in {Append(input, c) : c \in Chars} : Len(v) <= MaxInput}
    \cup (IF input = <<>> THEN {}
          ELSE {SubSeq(input, 1, Len(input) - 1), <<>>})

\* onChange of the input with e.target.value = value; `active` is the
\* hook's state: isActive, countdown over, not completing
HandleInputChange(value, active) ==
    LET st == localGameState
        submits == active /\ SubmitsLetter(st, value)
        completes == active /\ CompletesWord(st, value)
    IN
    /\ value # st.typedInput
    /\ (active /\ Len(value) > Len(st.typedInput))
          => st.totalLettersTyped < limits.typed
    /\ localGameState' = IF active THEN InputChanged(st, value) ELSE st
    /\ typingCall' = [fn |-> "handleInputChange", value |-> value,
                      active |-> active,
                      submitted |-> IF submits THEN <<value[Len(value)]>>
                                    ELSE <<>>,
                      completedWord |-> completes]
    /\ wordCalls' = IF completes THEN 0
                    ELSE IF submits THEN wordCalls + 1
                    ELSE wordCalls

\* onKeyDown with Enter or Space while the session is active
HandleKeyDown(active) ==
    LET st == localGameState
        completes == /\ active
                     /\ CurrentWord(st) # NoWord
                     /\ Trim(st.typedInput) = CurrentWord(st)
    IN
    /\ localGameState' = IF completes THEN WordDone(st, Trim(st.typedInput))
                         ELSE st
    /\ typingCall' = [NoTypingCall EXCEPT !.fn = "handleKeyDown",
                                          !.active = active,
                                          !.completedWord = completes]
    /\ wordCalls' = IF completes THEN 0 ELSE wordCalls

\* handleStartGame: the words of the new session
HandleStartGameWords(words) ==
    /\ localGameState' = [InitialLocalGameState EXCEPT !.gameWords = words]
    /\ typingCall' = [NoTypingCall EXCEPT !.fn = "handleStartGame"]
    /\ wordCalls' = 0

\* handleResetGame: the typing state goes back to its initial value
HandleResetWords ==
    /\ localGameState # InitialLocalGameState
    /\ localGameState' = InitialLocalGameState
    /\ typingCall' = [NoTypingCall EXCEPT !.fn = "handleResetGame"]
    /\ wordCalls' = 0

NextTyping ==
    /\ \/ \E value \in Edits(localGameState.typedInput),
             active \in BOOLEAN : HandleInputChange(value, active)
       \/ \E active \in BOOLEAN : HandleKeyDown(active)
       \/ \E words \in GameWordLists : HandleStartGameWords(words)
       \/ HandleResetWords
    /\ UNCHANGED <<hookVars, chainVars>>

\* ============================================== contract GamePaymaster
\* externally owned accounts; the first one deploys the paymaster
Accounts == {"deployer", "other"}

\* BOOTLOADER_FORMAL_ADDRESS
Bootloader == "bootloader"

\* address of TypingSpeedGame, given to the constructor
GameAddress == "game"

\* contracts a transaction can be addressed to
Targets == {GameAddress, "token"}

\* call data shorter than four bytes
ShortData == "0x"

\* call data, named by the signature whose selector its first four bytes
\* are
CallData ==
    {ShortData, "startGame()", "submitLetter(bytes1,uint256)",
     "completeGame(uint256,uint256,uint256)", "submitWord(string,uint256)",
     "transfer(address,uint256)"}

\* selectors accepted by validateAndPayForPaymasterTransaction
PaidSelectors ==
    {"startGame()", "submitLetter(bytes1,uint256)",
     "completeGame(uint256,uint256,uint256)"}

\* selectors accepted by wouldSponsor
WouldSponsorSelectors ==
    {"startGame()", "submitWord(string,uint256)",
     "completeGame(uint256,uint256)"}

GasLimits == {InitialMaxGas, InitialMaxGas + 1}

Fees == 1..MaxFee

\* the value of a deposit and the largest balance: the price of the
\* dearest transaction
Deposit == (InitialMaxGas + 1) * MaxFee

\* the fields of Transaction that the paymaster reads
Transactions ==
    [to : Targets, gasLimit : GasLimits, maxFeePerGas : Fees,
     data : CallData]

NoTransaction ==
    [to |-> NoAddress, gasLimit |-> 0, maxFeePerGas |-> 0, data |-> ShortData]

\* storage and balance after the constructor
DeployedPaymaster ==
    [owner |-> "deployer", gameContract |-> GameAddress,
     maxGasPerTransaction |-> InitialMaxGas, totalGasSponsored |-> 0,
     transactionsSponsored |-> 0, balance |-> 0]

NoPayCall ==
    [fn |-> "none", sender |-> NoAddress, tx |-> NoTransaction,
     arg |-> 0, address |-> NoAddress, error |-> "none",
     sponsored |-> FALSE, reason |-> ""]

Deployed ==
    /\ DeployedGameContract
    /\ paymaster = DeployedPaymaster
    /\ payCall = NoPayCall
    /\ TypingMounted

\* modifier onlyOwner without its check
AnyCaller(pm, sender) == TRUE

\* modifier onlyOwner
OnlyOwner(pm, sender) == sender = pm.owner

\* requiredETH
RequiredETH(tx) == tx.gasLimit * tx.maxFeePerGas

\* validateAndPayForPaymasterTransaction without the selector check
ValidateErrorAnySelector(pm, sender, tx) ==
    IF sender # Bootloader THEN "Only bootloader can call this method"
    ELSE IF tx.to # pm.gameContract THEN "Transaction not for game contract"
    ELSE IF tx.data = ShortData THEN "slice out of bounds"
    ELSE IF pm.balance < RequiredETH(tx) THEN "Paymaster balance too low"
    ELSE "none"

\* the check that fails in validateAndPayForPaymasterTransaction, in the
\* order of evaluation; data[0:4] of shorter data reverts
ValidateError(pm, sender, tx) ==
    IF sender # Bootloader THEN "Only bootloader can call this method"
    ELSE IF tx.to # pm.gameContract THEN "Transaction not for game contract"
    ELSE IF tx.data = ShortData THEN "slice out of bounds"
    ELSE IF tx.data \notin PaidSelectors THEN "Function not sponsored"
    ELSE IF pm.balance < RequiredETH(tx) THEN "Paymaster balance too low"
    ELSE "none"

\* paymaster after it paid the bootloader for tx
Paid(pm, tx) ==
    [pm EXCEPT !.balance = @ - RequiredETH(tx),
               !.totalGasSponsored = @ + RequiredETH(tx),
               !.transactionsSponsored = @ + 1]

\* wouldSponsor
WouldSponsor(pm, to, gasLimit, data) ==
    IF to # pm.gameContract
    THEN [sponsored |-> FALSE, reason |-> "Not game contract"]
    ELSE IF gasLimit > pm.maxGasPerTransaction
    THEN [sponsored |-> FALSE, reason |-> "Gas limit too high"]
    ELSE IF data = ShortData
    THEN [sponsored |-> FALSE, reason |-> "Invalid transaction data"]
    ELSE IF data \notin WouldSponsorSelectors
    THEN [sponsored |-> FALSE, reason |-> "Function not sponsored"]
    ELSE [sponsored |-> TRUE, reason |-> ""]

\* the bootloader, or another caller, asks the paymaster to pay for tx; the
\* step records what wouldSponsor returns for tx in the same state
ValidateAndPayForPaymasterTransaction(sender, tx) ==
    LET error == ValidateError(paymaster, sender, tx)
        would == WouldSponsor(paymaster, tx.to, tx.gasLimit, tx.data)
    IN
    /\ error = "none" => paymaster.transactionsSponsored < limits.sponsored
    /\ paymaster' = IF error = "none" THEN Paid(paymaster, tx) ELSE paymaster
    /\ payCall' = [NoPayCall EXCEPT
                      !.fn = "validateAndPayForPaymasterTransaction",
                      !.sender = sender, !.tx = tx, !.error = error,
                      !.sponsored = would.sponsored,
                      !.reason = would.reason]

\* a call of the view function wouldSponsor
WouldSponsorCall(sender, tx) ==
    LET would == WouldSponsor(paymaster, tx.to, tx.gasLimit, tx.data) IN
    /\ payCall' = [NoPayCall EXCEPT
                      !.fn = "wouldSponsor", !.sender = sender, !.tx = tx,
                      !.sponsored = would.sponsored,
                      !.reason = would.reason]
    /\ UNCHANGED paymaster

\* withdraw(amount)
Withdraw(sender, amount) ==
    LET amountToWithdraw == IF amount = 0 THEN paymaster.balance ELSE amount
        error == IF ~OnlyOwner(paymaster, sender)
                 THEN "Only owner can call this function"
                 ELSE IF ~(paymaster.balance > 0) THEN "No funds to withdraw"
                 ELSE IF ~(amountToWithdraw <= paymaster.balance)
                 THEN "Insufficient balance"
                 ELSE "none"
    IN
    /\ paymaster' = IF error = "none"
                    THEN [paymaster EXCEPT !.balance = @ - amountToWithdraw]
                    ELSE paymaster
    /\ payCall' = [NoPayCall EXCEPT !.fn = "withdraw", !.sender = sender,
                                    !.arg = amount, !.error = error]

\* updateGameContract(newGameContract)
UpdateGameContract(sender, newGameContract) ==
    LET error == IF ~OnlyOwner(paymaster, sender)
                 THEN "Only owner can call this function"
                 ELSE IF newGameContract = NoAddress
                 THEN "Invalid contract address"
                 ELSE "none"
    IN
    /\ paymaster' = IF error = "none"
                    THEN [paymaster EXCEPT !.gameContract = newGameContract]
                    ELSE paymaster
    /\ payCall' = [NoPayCall EXCEPT !.fn = "updateGameContract",
                                    !.sender = sender,
                                    !.address = newGameContract,
                                    !.error = error]

\* updateMaxGas(newMaxGas)
UpdateMaxGas(sender, newMaxGas) ==
    LET error == IF ~OnlyOwner(paymaster, sender)
                 THEN "Only owner can call this function"
                 ELSE IF ~(newMaxGas > 0)
                 THEN "Max gas must be greater than 0"
                 ELSE "none"
    IN
    /\ paymaster' = IF error = "none"
                    THEN [paymaster EXCEPT
                             !.maxGasPerTransaction = newMaxGas]
                    ELSE paymaster
    /\ payCall' = [NoPayCall EXCEPT !.fn = "updateMaxGas",
                                    !.sender = sender, !.arg = newMaxGas,
                                    !.error = error]

\* fund() with msg.value = value
Fund(sender, value) ==
    LET error == IF ~OnlyOwner(paymaster, sender)
                 THEN "Only owner can call this function"
                 ELSE IF ~(value > 0) THEN "Must send ETH to fund"
                 ELSE "none"
    IN
    /\ error = "none" => paymaster.balance + value <= limits.funds
    /\ paymaster' = IF error = "none"
                    THEN [paymaster EXCEPT !.balance = @ + value]
                    ELSE paymaster
    /\ payCall' = [NoPayCall EXCEPT !.fn = "fund", !.sender = sender,
                                    !.arg = value, !.error = error]

\* transferOwnership(newOwner)
TransferOwnership(sender, newOwner) ==
    LET error == IF ~OnlyOwner(paymaster, sender)
                 THEN "Only owner can call this function"
                 ELSE IF newOwner = NoAddress THEN "Invalid new owner"
                 ELSE "none"
    IN
    /\ paymaster' = IF error = "none"
                    THEN [paymaster EXCEPT !.owner = newOwner]
                    ELSE paymaster
    /\ payCall' = [NoPayCall EXCEPT !.fn = "transferOwnership",
                                    !.sender = sender, !.address = newOwner,
                                    !.error = error]

\* a plain transfer of value to the paymaster: receive()
Receive(sender, value) ==
    /\ paymaster.balance + value <= limits.funds
    /\ paymaster' = [paymaster EXCEPT !.balance = @ + value]
    /\ payCall' = [NoPayCall EXCEPT !.fn = "receive", !.sender = sender,
                                    !.arg = value]

NextPaymaster ==
    /\ \/ \E sender \in {Bootloader, "other"}, tx \in Transactions :
             ValidateAndPayForPaymasterTransaction(sender, tx)
       \/ \E tx \in Transactions : WouldSponsorCall("other", tx)
       \/ \E sender \in Accounts, amount \in {0, Deposit} :
             Withdraw(sender, amount)
       \/ \E sender \in Accounts, a \in {NoAddress, GameAddress, "token"} :
             UpdateGameContract(sender, a)
       \/ \E sender \in Accounts, gas \in {0, InitialMaxGas + 1} :
             UpdateMaxGas(sender, gas)
       \/ \E sender \in Accounts, value \in {0, Deposit} :
             Fund(sender, value)
       \/ \E sender \in Accounts, a \in Accounts \cup {NoAddress} :
             TransferOwnership(sender, a)
       \/ \E sender \in Accounts : Receive(sender, Deposit)
    /\ UNCHANGED <<hookVars, gameVars, typingVars>>

\* ---------------------------------------------------------------- Init
\* the state after the first render, before any input
Mounted ==
    /\ gameState = InitialGameState
    /\ transactions = <<>>
    /\ nonceRef = Null
    /\ countdownRef = Null
    /\ intervals = <<>>
    /\ ring = <<>>
    /\ tasks = <<>>
    /\ simTimers = {}
    /\ ffPending = FALSE
    /\ ffQueue = <<>>
    /\ complDue = {}
    /\ netNonce = InitialNonce
    /\ chainSession = 0
    /\ timeRemaining = GameTicks
    /\ gameCompletedRef = FALSE
    /\ results = Null
    /\ walletClient = FALSE
    /\ hist = <<>>
    /\ lastWasLetter = FALSE
    /\ lastPoll = Null
    /\ sinceReset = FALSE
    /\ resets = 0

Init ==
    /\ Mounted /\ Deployed
    /\ limits = [typed |-> 0, players |-> 2, board |-> MaxLeaderboardSize,
                 blocks |-> 0, counts |-> 0, funds |-> 0, sponsored |-> 0,
                 total |-> MaxSessions, sessions |-> MaxSessions,
                 letters |-> MaxLetters, records |-> MaxRecords,
                 words |-> 0,
                 history |-> TRUE]

\* one session
InitOne ==
    /\ Mounted /\ Deployed
    /\ limits = [typed |-> 0, players |-> 2, board |-> MaxLeaderboardSize,
                 blocks |-> 0, counts |-> 0, funds |-> 0, sponsored |-> 0,
                 total |-> 2, sessions |-> 1, letters |-> MaxLetters,
                 records |-> MaxLetters + 2, words |-> MaxWords,
                 history |-> TRUE]

\* one session with a burst of letters
InitBurst ==
    /\ Mounted /\ Deployed
    /\ limits = [typed |-> 0, players |-> 2, board |-> MaxLeaderboardSize,
                 blocks |-> 0, counts |-> 0, funds |-> 0, sponsored |-> 0,
                 total |-> 2, sessions |-> 1, letters |-> BurstLetters,
                 records |-> MaxRecords, words |-> 0,
                 history |-> TRUE]

\* one session in which a second letter can follow the first
InitPair ==
    /\ Mounted /\ Deployed
    /\ limits = [typed |-> 0, players |-> 2, board |-> MaxLeaderboardSize,
                 blocks |-> 0, counts |-> 0, funds |-> 0, sponsored |-> 0,
                 total |-> 2, sessions |-> 1, letters |-> MaxLetters + 1,
                 records |-> MaxLetters + 2, words |-> 0,
                 history |-> TRUE]

\* sessions without letters, and a reset
InitReset ==
    /\ Mounted /\ Deployed
    /\ limits = [typed |-> 0, players |-> 2, board |-> MaxLeaderboardSize,
                 blocks |-> 0, counts |-> 0, funds |-> 0, sponsored |-> 0,
                 total |-> MaxSessions + 1, sessions |-> MaxSessions,
                 letters |-> 0, records |-> MaxSessions + 1, words |-> 0,
                 history |-> TRUE]

\* two sessions with a letter each; the history of the last handler and of
\* the last poll is not recorded
InitTwo ==
    /\ Mounted /\ Deployed
    /\ limits = [typed |-> 0, players |-> 2, board |-> MaxLeaderboardSize,
                 blocks |-> 0, counts |-> 0, funds |-> 0, sponsored |-> 0,
                 total |-> MaxSessions + 1, sessions |-> MaxSessions,
                 letters |-> MaxLetters + 1, records |-> MaxRecords,
                 words |-> 0,
                 history |-> FALSE]

\* the contract TypingSpeedGame with one session
InitGame ==
    /\ Mounted /\ Deployed
    /\ limits = [typed |-> 0, players |-> 2, board |-> MaxLeaderboardSize,
                 blocks |-> 1, counts |-> MaxCount, funds |-> 0,
                 sponsored |-> 0, total |-> 0,
                 sessions |-> 1, letters |-> MaxChainLetters,
                 records |-> 0, words |-> MaxCount,
                 history |-> TRUE]

\* the contract TypingSpeedGame with two sessions and no letter
InitSessions ==
    /\ Mounted /\ Deployed
    /\ limits = [typed |-> 0, players |-> 2, board |-> MaxLeaderboardSize,
                 blocks |-> MaxBlocks, counts |-> 0, funds |-> 0,
                 sponsored |-> 0, total |-> 0,
                 sessions |-> 2, letters |-> 0, records |-> 0, words |-> 0,
                 history |-> TRUE]

\* the contract TypingSpeedGame with three players, one session each, and
\* a leaderboard scaled down to two entries
InitBoard ==
    /\ Mounted /\ Deployed
    /\ limits = [typed |-> 0, players |-> 3, board |-> 2, blocks |-> 0,
                 counts |-> MaxCount, funds |-> 0, sponsored |-> 0,
                 total |-> 0, sessions |-> 3, letters |-> 0, records |-> 0,
                 words |-> 0,
                 history |-> TRUE]

\* the typing state of the component
InitTyping ==
    /\ Mounted /\ Deployed
    /\ limits = [typed |-> MaxTyped, players |-> 2,
                 board |-> MaxLeaderboardSize, blocks |-> 0, counts |-> 0,
                 funds |-> 0, sponsored |-> 0, total |-> 0, sessions |-> 0,
                 letters |-> 0, records |-> 0, words |-> 0,
                 history |-> TRUE]

\* the contract GamePaymaster
InitPaymaster ==
    /\ Mounted /\ Deployed
    /\ limits = [typed |-> 0, players |-> 2, board |-> MaxLeaderboardSize,
                 blocks |-> 0, counts |-> 0, funds |-> Deposit,
                 sponsored |-> MaxSponsored, total |-> 0, sessions |-> 0,
                 letters |-> 0, records |-> 0, words |-> 0,
                 history |-> TRUE]

\* ------------------------------------------------------- UI: start game
\* handleStartGame, reachable from the start screen and from the
\* "Play Again" button of the end screen.
StartButtonShown ==
    /\ gameState.countdown <= 0
    /\ \/ ~gameState.isActive
       \/ timeRemaining = 0 /\ ~gameState.isCompleting

\* startGame: guard `isActive || countdown > 0` returns early
StartGame ==
    /\ StartButtonShown
    /\ IF gameState.isActive \/ gameState.countdown > 0
       THEN /\ Commit(gameState, transactions, GameTicks, Null, ring, FALSE)
            /\ UNCHANGED <<nonceRef, countdownRef, intervals, tasks, hist>>
       ELSE LET id == Len(transactions) + 1 IN
            /\ CountOfType(transactions, "startGame") < limits.sessions
            /\ CountOfType(transactions, "startGame") + resets
                  < limits.total
            /\ Len(transactions) < limits.records
            /\ nonceRef' = RefAfterCall(Null)
            /\ tasks' = Append(tasks, NewTask(Null, "startGame"))
            /\ hist' = Append(hist, NewHist(FALSE))
            /\ countdownRef' = id
            /\ intervals' = [k \in DOMAIN intervals \cup {id} |->
                                IF k = id THEN CountdownStart
                                ELSE intervals[k]]
            /\ Commit([gameState EXCEPT !.countdown = CountdownStart],
                      Append(transactions, NewTx(id, "startGame", Null)),
                      GameTicks, Null,
                      Append(ring, RingEntry("countdown", id, ffPending)),
                      FALSE)
    /\ UNCHANGED <<simTimers, ffPending, ffQueue, complDue, netNonce,
                   chainSession>>

\* one firing of the countdown interval created by startGame call k
CountdownTick(k) ==
    LET count == Max(intervals[k] - 1, 0)
        ticked == [gameState EXCEPT !.countdown = count]
        started == [ticked EXCEPT !.isActive = TRUE,
                                  !.localLetterCount = 0,
                                  !.localWordCount = 0,
                                  !.countdown = 0]
        armed == Rearm(ring)
    IN
    /\ k \in DOMAIN intervals
    /\ IsHead(ring, "countdown", k)
    /\ IF count <= 0
       THEN /\ intervals' = [j \in DOMAIN intervals \ {countdownRef} |->
                                IF j = k THEN count ELSE intervals[j]]
            /\ countdownRef' = Null
            /\ Commit(started, transactions, timeRemaining, results,
                      RingWithout(armed, "countdown", countdownRef),
                      gameCompletedRef)
       ELSE /\ intervals' = [intervals EXCEPT ![k] = count]
            /\ countdownRef' = countdownRef
            /\ Commit(ticked, transactions, timeRemaining, results, armed,
                      gameCompletedRef)
    /\ UNCHANGED <<nonceRef, tasks, simTimers, ffPending, ffQueue,
                   complDue, netNonce, chainSession, hist>>

\* ------------------------------------------------------ UI: game timer
\* no timeout of an earlier completeGame call is pending
CompletionTimersDone ==
    /\ ~ffPending /\ ffQueue = <<>>
    /\ \A i \in 1..Len(ring) : ring[i].kind # "finish"

\* completeGame: guard
CanComplete(gs) == gs.isActive /\ ~NoSession(gs) /\ ~gs.isCompleting

\* One firing of the game timer interval.  At expiry the tick calls
\* completeGame through setTimeout(…, 0); the call is part of the step.
\* A session lasts GAME_DURATION seconds, so the timeouts of the previous
\* completeGame call have fired when the next one is made.
TimerTick ==
    LET id == Len(transactions) + 1 IN
    /\ IsHead(ring, "game", 0)
    /\ IF timeRemaining <= 1 /\ ~gameCompletedRef
       THEN IF CanComplete(gameState)
            THEN /\ CompletionTimersDone
                 /\ Len(transactions) < limits.records
                 /\ nonceRef' = RefAfterCall(nonceRef)
                 /\ tasks' = Append(tasks,
                        [NewTask(nonceRef, "completeGame") EXCEPT
                            !.final = <<gameState.localLetterCount,
                                        gameState.localWordCount>>])
                 /\ hist' = Append(hist, NewHist(FALSE))
                 /\ ffPending' = TRUE
                 /\ complDue' = simTimers
                 /\ Commit([gameState EXCEPT !.isActive = FALSE,
                                             !.isCompleting = TRUE],
                           Append(transactions,
                                  NewTx(id, "completeGame",
                                        gameState.gameSession)),
                           0, results, Rearm(ring), TRUE)
            ELSE /\ Commit(gameState, transactions, 0, results,
                           Rearm(ring), TRUE)
                 /\ UNCHANGED <<nonceRef, tasks, hist, ffPending, complDue>>
       ELSE /\ Commit(gameState, transactions,
                      Max(timeRemaining - 1, MinTime), results, Rearm(ring),
                      gameCompletedRef)
            /\ UNCHANGED <<nonceRef, tasks, hist, ffPending, complDue>>
    /\ UNCHANGED <<countdownRef, intervals, simTimers, ffQueue, netNonce,
                   chainSession>>

\* ---------------------------------------------------- UI: typed letter
\* variant of LetterPermitted that does not ask for the session handle
LetterPermittedWithoutHandle(gs) ==
    gs.isActive /\ gs.countdown <= 0 /\ ~gs.isCompleting

\* guards of handleInputChange and of submitLetter: the letter is accepted
LetterPermitted(gs) ==
    /\ gs.isActive /\ gs.countdown <= 0 /\ ~gs.isCompleting
    /\ ~NoSession(gs)

\* completeWord: guard `!isActive` returns
WordCompleted(gs) ==
    IF gs.isActive THEN [gs EXCEPT !.localWordCount = @ + 1] ELSE gs

\* variant of LetterCounted that leaves the count to the dispatch
LetterNotCounted(gs) == gs

\* submitLetter: localLetterCount: prev.localLetterCount + 1
LetterCounted(gs) == [gs EXCEPT !.localLetterCount = @ + 1]

\* handleInputChange with a correct letter, then submitLetter, then
\* completeWord when the letter ends the word; a letter that is not
\* permitted returns before anything is written
SubmitLetter ==
    LET id == Len(transactions) + 1
        counted == LetterCounted(gameState)
    IN
    IF LetterPermitted(gameState)
    THEN /\ CountOfType(transactions, "letter") < limits.letters
         /\ Len(transactions) < limits.records
         /\ nonceRef' = RefAfterCall(nonceRef)
         /\ tasks' = Append(tasks, NewTask(nonceRef, "letter"))
         /\ hist' = Append(hist, NewHist(lastWasLetter))
         /\ \E word \in BOOLEAN :
               /\ word => gameState.localWordCount < limits.words
               /\ CommitTx(IF word THEN WordCompleted(counted) ELSE counted,
                           Append(transactions,
                                  NewTx(id, "letter", gameState.gameSession)))
         /\ UNCHANGED <<countdownRef, intervals, simTimers, ffPending,
                        ffQueue, complDue, netNonce, chainSession>>
    ELSE UNCHANGED <<gameState, transactions, nonceRef, countdownRef,
                     intervals, ring, tasks, simTimers, ffPending, ffQueue,
                     complDue, netNonce, chainSession, timeRemaining,
                     gameCompletedRef, results, hist>>

\* guard of handleInputChange and of handleKeyDown for a completed word
WordPermitted(gs) == gs.isActive /\ gs.countdown <= 0 /\ ~gs.isCompleting

\* a word completed by Space or Enter: handleInputChange or handleKeyDown,
\* then completeWord; outside a running game the handler returns
CompleteWord ==
    IF WordPermitted(gameState)
    THEN /\ gameState.localWordCount < limits.words
         /\ CommitTx(WordCompleted(gameState), transactions)
         /\ UNCHANGED <<nonceRef, countdownRef, intervals, tasks, simTimers,
                        ffPending, ffQueue, complDue, netNonce, chainSession,
                        hist>>
    ELSE UNCHANGED <<gameState, transactions, nonceRef, countdownRef,
                     intervals, ring, tasks, simTimers, ffPending, ffQueue,
                     complDue, netNonce, chainSession, timeRemaining,
                     gameCompletedRef, results, hist>>

\* ------------------------------------------------------- UI: Reset All
\* the end screen of TypingGame is rendered
ResetButtonShown ==
    /\ gameState.countdown <= 0 /\ gameState.isActive
    /\ timeRemaining = 0 /\ ~gameState.isCompleting

\* resetGame: clearInterval(countdownRef.current)
ClearedCountdown(rg) ==
    IF countdownRef = Null THEN rg
    ELSE RingWithout(rg, "countdown", countdownRef)

\* handleResetGame: gameCompletedRef.current = false, resetGame(),
\* setTimeRemaining(GAME_DURATION), clearInterval(gameTimerRef.current)
HandleResetGame ==
    /\ ResetButtonShown
    /\ CountOfType(transactions, "startGame") + resets < limits.total
    /\ resets' = resets + 1
    /\ intervals' = [j \in DOMAIN intervals \ {countdownRef} |->
                        intervals[j]]
    /\ countdownRef' = Null
    /\ nonceRef' = Null
    /\ Commit(InitialGameState, transactions, GameTicks, results,
              RingWithout(ClearedCountdown(ring), "game", 0), FALSE)
    /\ sinceReset' = TRUE /\ lastWasLetter' = FALSE /\ lastPoll' = Null
    /\ UNCHANGED <<tasks, simTimers, ffPending, ffQueue, complDue,
                   netNonce, chainSession, walletClient, limits, hist>>
    /\ UNCHANGED <<chainVars, typingVars>>

\* --------------------------------------------------------- environment
\* useWalletClient().data, undefined at mount while the wallet client of
\* the connected account is loading, becomes defined
WalletClientChange ==
    /\ ~walletClient
    /\ walletClient' = TRUE
    /\ lastWasLetter' = FALSE /\ lastPoll' = Null
    /\ UNCHANGED <<gameState, transactions, nonceRef, countdownRef,
                   intervals, ring, tasks, simTimers, ffPending, ffQueue,
                   complDue, netNonce, chainSession, timeRemaining,
                   gameCompletedRef, results, limits, hist, sinceReset,
                   resets>>
    /\ UNCHANGED <<chainVars, typingVars>>

\* ----------------------------------------------- sendTransactionAsync
\* getTransactionCount({blockTag: 'pending'}) resolves
FetchResolve(k) ==
    /\ k \in Ids /\ tasks[k].pc = "fetch"
    /\ nonceRef' = netNonce
    /\ tasks' = [tasks EXCEPT ![k].nonce = netNonce,
                              ![k].pc = AfterNonce(transactions[k].type)]
    /\ UNCHANGED <<gameState, transactions, countdownRef, intervals, ring,
                   simTimers, ffPending, ffQueue, complDue, netNonce,
                   chainSession, timeRemaining, gameCompletedRef, results,
                   hist>>

\* simulateContract('startGame') resolves with the next session id
SimulateResolve(k) ==
    /\ k \in Ids /\ tasks[k].pc = "simulate"
    /\ tasks' = [tasks EXCEPT ![k].result = chainSession + 1,
                              ![k].pc = "write"]
    /\ UNCHANGED <<gameState, transactions, nonceRef, countdownRef,
                   intervals, ring, simTimers, ffPending, ffQueue, complDue,
                   netNonce, chainSession, timeRemaining, gameCompletedRef,
                   results, hist>>

\* writeContract resolves with a hash: the network accepted the nonce
WriteResolve(k) ==
    LET type == transactions[k].type
        gs == IF type = "startGame"
              THEN [gameState EXCEPT !.gameSession = tasks[k].result]
              ELSE gameState
        sent == MarkSent(transactions[k], k, tasks[k].result)
    IN
    /\ k \in Ids /\ tasks[k].pc = "write"
    /\ tasks[k].nonce = netNonce
    /\ netNonce' = netNonce + 1
    /\ chainSession' = IF type = "startGame" THEN chainSession + 1
                       ELSE chainSession
    /\ tasks' = [tasks EXCEPT ![k].pc = "ok"]
    /\ simTimers' = simTimers \cup {k}
    /\ CommitTx(gs, MapTx(transactions, k, sent))
    /\ UNCHANGED <<nonceRef, countdownRef, intervals, ffPending, ffQueue,
                   complDue, hist>>

\* An awaited call of the task throws: the catch block.  writeContract
\* fails with a nonce error for a nonce other than the expected one, and
\* for the expected one when another client of the account has just used
\* it; any awaited call may fail for another reason.
Rejected == {k \in Ids : tasks[k].pc = "err"}

TaskReject(k, message) ==
    LET tx == transactions[k]
        failed == MarkFailed(tx, message)
        gs == Rollback(gameState, tx.type)
    IN
    /\ k \in Ids /\ tasks[k].pc \in {"fetch", "simulate", "write"}
    /\ Cardinality(Rejected) < MaxRejects
    /\ IsNonceError(message) => tasks[k].pc = "write"
    /\ tasks[k].pc = "write" /\ tasks[k].nonce # netNonce
          => IsNonceError(message)
    /\ netNonce' = IF IsNonceError(message) /\ tasks[k].nonce = netNonce
                   THEN netNonce + 1 ELSE netNonce
    /\ nonceRef' = IF IsNonceError(message) THEN Null ELSE nonceRef
    /\ tasks' = [tasks EXCEPT ![k].pc = "err"]
    /\ hist' = [hist EXCEPT
          ![k].undone = @ + (gameState.localLetterCount
                               - gs.localLetterCount),
          ![k].fails = @ + (IF tx.status # "failed" THEN 1 ELSE 0)]
    /\ CommitTx(gs, MapTx(transactions, k, failed))
    /\ UNCHANGED <<countdownRef, intervals, simTimers, ffPending, ffQueue,
                   complDue, chainSession>>

\* ------------------------------------------------- confirmation signals
\* The timeout of simulateConfirmation(txId, delay) fires; the delays are
\* 150ms to 500ms.
SimulateConfirmation(k) ==
    /\ k \in simTimers
    /\ simTimers' = simTimers \ {k}
    /\ complDue' = complDue \ {k}
    /\ CommitTx(gameState,
                MapTx(transactions, k, SimulatedConfirm(transactions[k])))
    /\ UNCHANGED <<nonceRef, countdownRef, intervals, tasks, ffPending,
                   ffQueue, netNonce, chainSession, hist>>

Observed == {k \in Ids : hist[k].receipt}

\* t.hash === tx.hash ? { ...t, status: 'confirmed', ... } : t
ConfirmByHash(txs, hash) ==
    [i \in 1..Len(txs) |-> IF txs[i].hash = hash
                           THEN ReceiptConfirm(txs[i]) ELSE txs[i]]

\* monitorTransactions: getTransactionReceipt for the hash of a record
\* that was polled as 'sent' returns a receipt
MonitorReceipt(k) ==
    /\ k \in Ids /\ tasks[k].pc = "ok"
    /\ \E i \in Ids : transactions[i].hash = k
    /\ hist[k].receipt \/ Cardinality(Observed) < MaxReceipts
    /\ hist' = [hist EXCEPT ![k].receipt = TRUE]
    /\ CommitTx(gameState, ConfirmByHash(transactions, k))
    /\ UNCHANGED <<nonceRef, countdownRef, intervals, tasks, simTimers,
                   ffPending, ffQueue, complDue, netNonce, chainSession>>

\* variant of NoReceipt that takes the missing receipt for a failure
NoReceiptMarksFailed(txs, hash) ==
    [i \in 1..Len(txs) |-> IF txs[i].hash = hash
                           THEN MarkFailed(txs[i], "other") ELSE txs[i]]

\* no receipt (undefined, or getTransactionReceipt throws): only a log line
NoReceipt(txs, hash) == txs

\* monitorTransactions: getTransactionReceipt for the hash of a record
\* that is 'sent' returns no receipt
MonitorNoReceipt(k) ==
    /\ k \in Ids
    /\ transactions[k].hash # NoHash /\ transactions[k].status = "sent"
    /\ transactions' = NoReceipt(transactions, transactions[k].hash)
    /\ lastPoll' = (IF limits.history THEN k ELSE Null)
    /\ lastWasLetter' = FALSE
    /\ UNCHANGED <<gameState, nonceRef, countdownRef, intervals, ring,
                   tasks, simTimers, ffPending, ffQueue, complDue,
                   netNonce, chainSession, timeRemaining,
                   gameCompletedRef, results, walletClient, limits, hist,
                   sinceReset, resets>>
    /\ UNCHANGED <<chainVars, typingVars>>

\* ------------------------------------------------- completion timeouts
\* The timeouts of one completeGame call fire 600ms (fast-forward), from
\* 800ms on in steps of 100ms (replays) and 1600ms (finish) after the
\* call.  A simulateConfirmation timeout that is pending when one of them
\* fires has fired when the next but one does (complDue); with at most
\* four replays every replay precedes the finish.

\* fastForwardedTxs of fastForwardTransactions
FastForwardSnapshot(txs) ==
    LET open == SelectSeq(txs, IsOpen) IN
    [i \in 1..Len(open) |-> FastForwarded(open[i])]

Ungated(rg) == [i \in 1..Len(rg) |-> [rg[i] EXCEPT !.gated = FALSE]]

\* the 600ms timeout of completeGame: fastForwardTransactions() and the
\* registration of the 1000ms timeout
FastForwardTransactions ==
    /\ ffPending /\ complDue = {}
    /\ ffPending' = FALSE
    /\ ffQueue' = FastForwardSnapshot(transactions)
    /\ complDue' = simTimers
    /\ ring' = Append(Ungated(ring), RingEntry("finish", 0, FALSE))
    /\ UNCHANGED <<gameState, transactions, nonceRef, countdownRef,
                   intervals, tasks, simTimers, netNonce, chainSession,
                   timeRemaining, gameCompletedRef, results, hist>>

\* current.map(t => t.id === tx.id ? tx : t)
ReplaceTx(txs, tx) ==
    [i \in 1..Len(txs) |-> IF txs[i].id = tx.id THEN tx ELSE txs[i]]

\* the next replay timeout of fastForwardTransactions fires
FastForwardReplay ==
    /\ ffQueue # <<>>
    /\ ffQueue' = Tail(ffQueue)
    /\ complDue' = simTimers
    /\ CommitTx(gameState, ReplaceTx(transactions, Head(ffQueue)))
    /\ UNCHANGED <<nonceRef, countdownRef, intervals, tasks, simTimers,
                   ffPending, netNonce, chainSession, hist>>

\* the state written by the 1000ms timeout of completeGame
Finished(gs) == [gs EXCEPT !.isCompleting = FALSE, !.gameSession = Null]

FinishCompletion ==
    /\ IsHead(ring, "finish", 0)
    /\ ffQueue = <<>> /\ complDue = {}
    /\ Commit(Finished(gameState), transactions, timeRemaining, results,
              Tail(ring), gameCompletedRef)
    /\ UNCHANGED <<nonceRef, countdownRef, intervals, tasks, simTimers,
                   ffPending, ffQueue, complDue, netNonce, chainSession,
                   hist>>

\* ---------------------------------------------------------------- Next
\* bookkeeping of a step: whether the handler that ran was submitLetter
Ran(letter) ==
    /\ lastWasLetter' = (letter /\ limits.history) /\ lastPoll' = Null
    /\ sinceReset' = (sinceReset /\ CountOfType(transactions', "startGame")
                                      = CountOfType(transactions, "startGame"))
    /\ UNCHANGED <<limits, walletClient, resets>>
    /\ UNCHANGED <<chainVars, typingVars>>

Next ==
    \/ StartGame /\ Ran(FALSE)
    \/ (\E k \in DOMAIN intervals : CountdownTick(k)) /\ Ran(FALSE)
    \/ TimerTick /\ Ran(FALSE)
    \/ SubmitLetter /\ Ran(TRUE)
    \/ CompleteWord /\ Ran(FALSE)
    \/ HandleResetGame
    \/ WalletClientChange
    \/ \E k \in Ids : MonitorNoReceipt(k)
    \/ (\E k \in Ids : FetchResolve(k)) /\ Ran(FALSE)
    \/ (\E k \in Ids : SimulateResolve(k)) /\ Ran(FALSE)
    \/ (\E k \in Ids : WriteResolve(k)) /\ Ran(FALSE)
    \/ (\E k \in Ids, m \in {"nonce", "other"} : TaskReject(k, m))
          /\ Ran(FALSE)
    \/ (\E k \in simTimers : SimulateConfirmation(k)) /\ Ran(FALSE)
    \/ (\E k \in Ids : MonitorReceipt(k)) /\ Ran(FALSE)
    \/ FastForwardTransactions /\ Ran(FALSE)
    \/ FastForwardReplay /\ Ran(FALSE)
    \/ FinishCompletion /\ Ran(FALSE)

Spec == Init /\ [][Next]_vars

SpecOne == InitOne /\ [][Next]_vars

SpecBurst == InitBurst /\ [][Next]_vars

SpecPair == InitPair /\ [][Next]_vars

SpecReset == InitReset /\ [][Next]_vars

SpecTwo == InitTwo /\ [][Next]_vars

SpecGame == InitGame /\ [][NextGame]_vars

SpecSessions == InitSessions /\ [][NextGame]_vars

SpecBoard == InitBoard /\ [][NextGame]_vars

SpecTyping == InitTyping /\ [][NextTyping]_vars

SpecPaymaster == InitPaymaster /\ [][NextPaymaster]_vars

\* =============================================================== claims

\* C1: whenever the phase changes from completing to idle (isCompleting
\* becomes false), every record is confirmed or failed.
C1_BarrierDrains ==
    [][gameState.isCompleting /\ ~gameState'.isCompleting
          => \A i \in 1..Len(transactions') : Terminal(transactions'[i])]_vars

\* C2: terminal states are absorbing: a record that is confirmed or failed
\* keeps its status in every later step.
C2_TerminalAbsorbing ==
    [][\A i \in Ids : Terminal(transactions[i])
          => transactions'[i].status = transactions[i].status]_vars

\* the sequence number handed to the dispatch of record i, or Null
NonceOf(i) == tasks[i].nonce

\* C3: two letters issued back-to-back (no step between the two
\* submitLetter calls) get strictly increasing sequence numbers, whatever
\* the state of the cache at the first call.
C3_BurstNoncesIncrease ==
    \A i \in Ids :
        /\ i > 1 /\ hist[i].chained
        /\ NonceOf(i) # Null /\ NonceOf(i - 1) # Null
        => NonceOf(i - 1) < NonceOf(i)

\* record i is in flight: sequence number assigned, dispatch not settled,
\* status not terminal
InFlight(i) ==
    /\ NonceOf(i) # Null
    /\ tasks[i].pc \in {"simulate", "write"}
    /\ IsOpen(transactions[i])

\* C4: no two records in flight at the same time carry the same sequence
\* number.
C4_InFlightNoncesDistinct ==
    \A i, j \in Ids :
        i < j /\ InFlight(i) /\ InFlight(j) => NonceOf(i) # NonceOf(j)

\* C5: the letter count is lowered by one on account of a letter record
\* exactly when that record transitions to failed, and at most once.
C5_RollbackExactlyOnFailure ==
    \A i \in Ids :
        transactions[i].type = "letter"
        => hist[i].undone = hist[i].fails /\ hist[i].fails <= 1

\* letter records that are not failed
LettersNotFailed(txs) ==
    Cardinality({i \in 1..Len(txs) :
                    txs[i].type = "letter" /\ txs[i].status # "failed"})

LegalChange(i) ==
    /\ transactions'[i].status = "confirmed"
          => transactions[i].status \in {"sent", "confirmed"}
    /\ transactions[i].status = "pending"
          => transactions'[i].status \in {"pending", "sent", "failed"}

ReplayOf(i) ==
    ffQueue # <<>> /\ ffQueue' = Tail(ffQueue) /\ Head(ffQueue).id = i

C9_NoRecordWhileDraining ==
    [][gameState.isCompleting
          => Len(transactions') = Len(transactions)]_vars

\* the startGame record of the latest start request
LastStart ==
    CHOOSE i \in Ids :
        /\ transactions[i].type = "startGame"
        /\ \A j \in Ids : transactions[j].type = "startGame" => j <= i

\* C10: from the failure of the startGame record until the next start
\* request the phase is idle and the session handle is cleared.
C10_StartFailureForcesIdle ==
    CountOfType(transactions, "startGame") > 0
       /\ transactions[LastStart].status = "failed"
    => Phase(gameState) = "idle" /\ gameState.gameSession = Null

\* the dispatch of record k fails with a sequencing conflict in this step
ConflictOf(k) ==
    transactions'[k].error = "nonce" /\ transactions[k].error # "nonce"

\* C11: a dispatch that fails with a sequencing conflict leaves its record
\* failed, takes back the letter's increment (a counter that resetGame has
\* put back to 0 in between stays 0) and empties the sequencer cache; a call made with an empty cache fetches the pending transaction
\* count of the network and uses it; a dispatch that then succeeds leaves
\* its record sent, not failed.
C11_ConflictResyncs ==
    [][/\ \A k \in Ids :
             ConflictOf(k)
             => /\ transactions'[k].status = "failed"
                /\ nonceRef' = Null
                /\ transactions[k].type = "letter"
                      => gameState'.localLetterCount
                            = Max(0, gameState.localLetterCount - 1)
       /\ (/\ Len(transactions') > Len(transactions) /\ nonceRef = Null
           /\ tasks'[Len(transactions')].pc # "skipped")
             => /\ tasks'[Len(transactions')].pc = "fetch"
                /\ tasks'[Len(transactions')].nonce = Null
       /\ \A k \in Ids :
             tasks[k].pc = "fetch" /\ tasks'[k].pc \notin {"fetch", "err"}
             => tasks'[k].nonce = netNonce /\ nonceRef' = netNonce
       /\ \A k \in Ids :
             tasks[k].pc = "write" /\ tasks'[k].pc = "ok"
             => transactions'[k].status = "sent"]_vars

\* letter a failed with a sequencing conflict and its increment is taken
\* back; letter b, typed afterwards, got the re-fetched number and is sent
C11_Witness ==
    \E a, b \in Ids :
        /\ a < b
        /\ transactions[a].type = "letter" /\ transactions[b].type = "letter"
        /\ transactions[a].status = "failed"
        /\ transactions[a].error = "nonce"
        /\ NonceOf(b) > NonceOf(a)
        /\ transactions[b].status = "sent" /\ tasks[b].pc = "ok"
        /\ gameState.localLetterCount = 1

Expiry == ~gameCompletedRef /\ gameCompletedRef'

\* C13: when the session timer expires in phase active, the phase becomes
\* completing (from which the barrier leads to idle).
C13_ExpiryStartsCompletion ==
    [][Expiry /\ Phase(gameState) = "active"
          => Phase(gameState') = "completing"]_vars

\* C14: of two records, the one submitted first has the smaller sequence
\* number.
C14_NoncesFollowSubmission ==
    \A i, j \in Ids :
        i < j /\ NonceOf(i) # Null /\ NonceOf(j) # Null
        => NonceOf(i) < NonceOf(j)

\* the dispatch attempt of record k has ended without a network identifier
EndedWithoutHash(k) == tasks[k].pc \in {"err", "skipped"}

\* C15: a record whose dispatch ended without a network identifier is
\* failed with its error set, and no record is pending once its dispatch
\* attempt has ended.
C15_FailedDispatchEndsFailed ==
    \A k \in Ids :
        /\ EndedWithoutHash(k)
              => /\ transactions[k].status = "failed"
                 /\ transactions[k].error # "none"
        /\ tasks[k].pc = "ok" => transactions[k].status # "pending"

\* C18: when the timer expires in phase active, one completeGame record is
\* added for the session, its dispatch carries the letter and word counts
\* of that instant and the phase becomes completing; no session has two
\* completeGame records.
C18_OneCompletionWithFinalCounts ==
    [][/\ Expiry /\ Phase(gameState) = "active"
             => /\ Len(transactions') = Len(transactions) + 1
                /\ transactions'[Len(transactions')].type = "completeGame"
                /\ transactions'[Len(transactions')].gameSession
                      = gameState.gameSession
                /\ tasks'[Len(transactions')].final
                      = <<gameState.localLetterCount,
                          gameState.localWordCount>>
                /\ Phase(gameState') = "completing"
       /\ \A i, j \in 1..Len(transactions') :
             /\ i < j
             /\ transactions'[i].type = "completeGame"
             /\ transactions'[j].type = "completeGame"
             => transactions'[i].gameSession # transactions'[j].gameSession
      ]_vars

\* the monitor applies the first receipt of record k in this step
FirstReceipt(k) == ~hist[k].receipt /\ hist'[k].receipt

\* C16: the step in which the monitor applies a receipt changes a record
\* only from sent to confirmed; a record that is confirmed, failed or
\* pending keeps all its fields.
C16_MonitorOnlyConfirmsSent ==
    [][\A k \in Ids :
          FirstReceipt(k)
          => \A i \in Ids :
                transactions'[i] # transactions[i]
                => /\ transactions[i].status = "sent"
                   /\ transactions'[i].status = "confirmed"
      ]_vars

\* C17: a receipt poll that finds no receipt leaves the polled record
\* sent and changes no record and no session state.
C17_NoReceiptChangesNothing ==
    [][lastPoll' # Null
          => /\ transactions'[lastPoll'].status = "sent"
             /\ UNCHANGED <<transactions, gameState, nonceRef, tasks,
                            simTimers, ffQueue, timeRemaining, results>>
      ]_vars

\* a sent letter was polled without a receipt while the session is active
C17_Witness ==
    /\ lastPoll # Null
    /\ transactions[lastPoll].type = "letter"
    /\ transactions[lastPoll].status = "sent"
    /\ Phase(gameState) = "active"

\* the completeGame record k becomes failed in this step
CompletionFails(k) ==
    /\ transactions[k].type = "completeGame"
    /\ transactions[k].status # "failed"
    /\ transactions'[k].status = "failed"

\* C19: when a completeGame record becomes failed, the letter and word
\* counts are unchanged (nothing is rolled back: isActive and countdown
\* keep their values too), the error of the record is set and no other
\* record changes.
C19_CompletionFailureKeepsCounts ==
    [][\A k \in Ids :
          CompletionFails(k)
          => /\ gameState'.localLetterCount = gameState.localLetterCount
             /\ gameState'.localWordCount = gameState.localWordCount
             /\ gameState'.isActive = gameState.isActive
             /\ gameState'.countdown = gameState.countdown
             /\ transactions'[k].error # "none"
             /\ \A i \in Ids \ {k} : transactions'[i] = transactions[i]
      ]_vars

\* a completeGame record failed after a letter and a word were counted
C19_Witness ==
    \E k \in Ids :
        /\ transactions[k].type = "completeGame"
        /\ transactions[k].status = "failed"
        /\ tasks[k].pc = "err"
        /\ gameState.localLetterCount = 1 /\ gameState.localWordCount = 1

\* the hash that writeContract returns for the dispatch of record i
HashOf(i) == i

\* C20: the hash of a pending record is absent, a hash is the value the
\* submit call returned for that record, and a hash that is set is never
\* replaced by another value.
C20_HashFromNetworkSetOnce ==
    [][\A i \in Ids :
          /\ transactions'[i].status = "pending"
                => transactions'[i].hash = NoHash
          /\ transactions'[i].hash # NoHash
                => transactions'[i].hash = HashOf(i) /\ tasks'[i].pc = "ok"
          /\ transactions[i].hash # NoHash
                => transactions'[i].hash = transactions[i].hash
      ]_vars

\* C21: in phase active with a session handle a submitLetter is accepted in
\* the step it is made, whatever the statuses of the earlier records: the
\* step appends a pending letter record of the session and adds one to
\* localLetterCount, and changes no earlier record.
C21_LetterAcceptedWithoutWaiting ==
    [][/\ lastWasLetter'
       /\ Phase(gameState) = "active" /\ ~NoSession(gameState)
       => /\ Len(transactions') = Len(transactions) + 1
          /\ transactions'[Len(transactions')].type = "letter"
          /\ transactions'[Len(transactions')].status = "pending"
          /\ transactions'[Len(transactions')].gameSession
                = gameState.gameSession
          /\ gameState'.localLetterCount = gameState.localLetterCount + 1
          /\ \A i \in Ids : transactions'[i] = transactions[i]
      ]_vars

\* a letter was accepted while an earlier letter is pending and the
\* startGame record is sent
C21_Witness ==
    /\ lastWasLetter
    /\ Len(transactions) >= 3
    /\ transactions[Len(transactions)].type = "letter"
    /\ transactions[Len(transactions)].status = "pending"
    /\ \E a, b \in 1..(Len(transactions) - 1) :
          /\ transactions[a].type = "letter"
          /\ transactions[a].status = "pending"
          /\ transactions[b].status = "sent"
    /\ gameState.localLetterCount = 2

\* the letter record k becomes failed in this step
LetterFails(k) ==
    /\ transactions[k].type = "letter"
    /\ transactions[k].status # "failed"
    /\ transactions'[k].status = "failed"

\* C22: in a step that begins and ends in phase active, localWordCount does
\* not decrease, and localLetterCount decreases only by one and only when
\* a letter record becomes failed in that step.
C22_CountsMonotoneWhileActive ==
    [][Phase(gameState) = "active" /\ Phase(gameState') = "active"
       => /\ gameState'.localWordCount >= gameState.localWordCount
          /\ gameState'.localLetterCount < gameState.localLetterCount
                => /\ gameState'.localLetterCount
                         = gameState.localLetterCount - 1
                   /\ \E k \in Ids : LetterFails(k)
      ]_vars

\* resetGame runs in this step
ResetStep == resets' = resets + 1

\* C23: resetGame empties countdownRef and the sequencer cache, returns
\* the session state to idle with zero counters and changes no record;
\* from then until the next startGame no step changes isActive,
\* isCompleting, countdown or the counters (no timer of before the reset
\* acts on the session state).
C23_ResetCancelsTimers ==
    [][/\ ResetStep
          => /\ gameState' = InitialGameState
             /\ countdownRef' = Null /\ nonceRef' = Null
             /\ transactions' = transactions
       /\ sinceReset /\ sinceReset'
          => /\ gameState'.isActive = gameState.isActive
             /\ gameState'.isCompleting = gameState.isCompleting
             /\ gameState'.countdown = gameState.countdown
             /\ gameState'.localLetterCount = gameState.localLetterCount
             /\ gameState'.localWordCount = gameState.localWordCount
      ]_vars

\* this step is a completeGame for a session that is already completed
FurtherCompleteGame ==
    /\ gameCall'.fn = "completeGame"
    /\ ValidGameSession(game, gameCall'.session)
    /\ game.gameSessions[gameCall'.session].completed

\* no session goes from completed back to not completed
CompletedStays ==
    \A n \in 1..game.currentGameSession :
        game.gameSessions[n].completed => game'.gameSessions[n].completed

\* C24: after completeGame succeeded for a session, every further
\* completeGame for it is rejected with "Game already completed" and
\* leaves the storage (session totals, player scores, global counters)
\* unchanged; completed never returns to false.
C24_CompletedAtMostOnce ==
    [][/\ FurtherCompleteGame
          => /\ gameCall'.error = "Game already completed"
             /\ game' = game
       /\ CompletedStays
      ]_vars

\* C24 as amended: the further completeGame is rejected and leaves the
\* storage unchanged; the message is "Game already completed" when the
\* caller is the session's player and "Not the game player" otherwise;
\* completed never returns to false.
C24_CompletedAtMostOncePerCaller ==
    [][/\ FurtherCompleteGame
          => /\ gameCall'.error
                  = (IF game.gameSessions[gameCall'.session].player
                          = gameCall'.sender
                     THEN "Game already completed"
                     ELSE "Not the game player")
             /\ game' = game
       /\ CompletedStays
      ]_vars

\* the player's second completeGame for a session was rejected
C24_Witness ==
    /\ gameCall.fn = "completeGame"
    /\ gameCall.error = "Game already completed"
    /\ game.gameSessions[gameCall.session].completed
    /\ game.gameSessions[gameCall.session].player = gameCall.sender
    /\ game.totalGamesPlayed = 1

\* the conditions of submitLetter on the storage before the call
LetterAllowed(sender, letter, session) ==
    /\ session \in 1..game.currentGameSession
    /\ game.gameSessions[session].player = sender
    /\ ~game.gameSessions[session].completed
    /\ letter # 0
    /\ blockTimestamp <= game.gameSessions[session].startTime + 33

\* C25: a submitLetter step changes the storage only if the session id
\* is in 1..currentGameSession, the caller is the session's player, the
\* session is not completed, the letter is non-zero and the block time
\* is at most startTime + 33; otherwise the call is rejected, no letter
\* is recorded and totalLettersSubmitted is unchanged.  A completeGame
\* step with an invalid session id or a caller who is not the session's
\* player is rejected and leaves the storage unchanged.
C25_RejectedCallsChangeNothing ==
    [][/\ (/\ gameCall'.fn = "submitLetter"
           /\ ~LetterAllowed(gameCall'.sender, gameCall'.letter,
                             gameCall'.session))
          => /\ gameCall'.error # "none"
             /\ game'.gameSessionLetters = game.gameSessionLetters
             /\ game'.totalLettersSubmitted = game.totalLettersSubmitted
             /\ game' = game
       /\ (/\ gameCall'.fn = "completeGame"
           /\ \/ gameCall'.session \notin 1..game.currentGameSession
              \/ game.gameSessions[gameCall'.session].player
                    # gameCall'.sender)
          => /\ gameCall'.error # "none"
             /\ game' = game
      ]_vars

\* a letter of the session's player was rejected one second after the
\* end of the window
C25_Witness ==
    /\ gameCall.fn = "submitLetter"
    /\ gameCall.error = "Game time expired"
    /\ blockTimestamp
         = game.gameSessions[gameCall.session].startTime + 33 + 1
    /\ game.totalLettersSubmitted = 0

\* C26: a startGame step increases currentGameSession by exactly one and
\* returns the new value; the session of that id is owned by the caller,
\* not completed, with zero totals, and the sessions of the earlier ids
\* are left as they were; no step lowers currentGameSession.
C26_SessionIdsCountUp ==
    [][/\ gameCall'.fn = "startGame"
          => /\ game'.currentGameSession = game.currentGameSession + 1
             /\ gameCall'.returned = game'.currentGameSession
             /\ Len(game'.gameSessions) = game'.currentGameSession
             /\ game'.gameSessions[gameCall'.returned].player
                  = gameCall'.sender
             /\ ~game'.gameSessions[gameCall'.returned].completed
             /\ game'.gameSessions[gameCall'.returned].totalLetters = 0
             /\ game'.gameSessions[gameCall'.returned].totalWords = 0
             /\ game'.gameSessionLetters[gameCall'.returned] = <<>>
             /\ \A n \in 1..game.currentGameSession :
                    game'.gameSessions[n] = game.gameSessions[n]
       /\ game'.currentGameSession >= game.currentGameSession
      ]_vars

\* the second startGame returned 2 while session 1 is completed
C26_Witness ==
    /\ gameCall.fn = "startGame"
    /\ gameCall.returned = 2
    /\ game.currentGameSession = 2
    /\ game.gameSessions[1].completed

\* this step is the bootloader's validateAndPayForPaymasterTransaction
ValidateStep ==
    /\ payCall'.fn = "validateAndPayForPaymasterTransaction"
    /\ payCall'.sender = Bootloader

\* C27: for every transaction that the balance can pay for, wouldSponsor
\* returns (true, "") exactly when validateAndPayForPaymasterTransaction
\* accepts the transaction in the same state.
C27_WouldSponsorAgrees ==
    [][(/\ ValidateStep
        /\ paymaster.balance >= payCall'.tx.gasLimit
                                  * payCall'.tx.maxFeePerGas)
          => ((payCall'.sponsored /\ payCall'.reason = "")
                <=> payCall'.error = "none")
      ]_vars

\* C28: validateAndPayForPaymasterTransaction transfers funds and
\* increments transactionsSponsored only when the gas limit of the
\* transaction is at most maxGasPerTransaction.
C28_GasLimitRespected ==
    [][(/\ ValidateStep
        /\ \/ paymaster'.balance < paymaster.balance
           \/ paymaster'.transactionsSponsored
                 > paymaster.transactionsSponsored)
          => payCall'.tx.gasLimit <= paymaster.maxGasPerTransaction
      ]_vars

\* the transaction is addressed to the current gameContract and carries
\* the selector of startGame, submitLetter or completeGame
GameTransaction(tx) ==
    /\ tx.to = paymaster.gameContract
    /\ tx.data \in {"startGame()", "submitLetter(bytes1,uint256)",
                    "completeGame(uint256,uint256,uint256)"}

OwnerFunctions ==
    {"withdraw", "updateGameContract", "updateMaxGas", "fund",
     "transferOwnership"}

\* C30: withdraw, updateGameContract, updateMaxGas, fund and
\* transferOwnership called by an address other than the current owner
\* are rejected with "Only owner can call this function" and leave
\* owner, gameContract, maxGasPerTransaction and the balance unchanged.
C30_OwnerOnly ==
    [][(/\ payCall'.fn \in OwnerFunctions
        /\ payCall'.sender # paymaster.owner)
          => /\ payCall'.error = "Only owner can call this function"
             /\ paymaster'.owner = paymaster.owner
             /\ paymaster'.gameContract = paymaster.gameContract
             /\ paymaster'.maxGasPerTransaction
                  = paymaster.maxGasPerTransaction
             /\ paymaster'.balance = paymaster.balance
      ]_vars

\* after the ownership went to another account, a withdrawal of the
\* deployer was rejected while the paymaster holds funds
C30_Witness ==
    /\ payCall.fn = "withdraw"
    /\ payCall.sender = "deployer"
    /\ paymaster.owner = "other"
    /\ payCall.error = "Only owner can call this function"
    /\ paymaster.balance > 0

\* totalLetters of the player at rank i (counted from 1)
RankedLetters(i) == game.playerScores[game.leaderboard[i]].totalLetters

\* C31: the leaderboard array is ordered by rank: for every i < j the
\* total letters of the player at i are at least those of the player at
\* j, so getLeaderboard returns non-increasing totals.
C31_LeaderboardOrdered ==
    \A i, j \in 1..Len(game.leaderboard) :
        i < j => RankedLetters(i) >= RankedLetters(j)

\* the player of the first session, who completed with a positive total,
\* stands second behind the sender of the last completeGame, who has
\* more letters from two sessions
C31_Witness ==
    /\ Len(game.leaderboard) = 2
    /\ game.gameSessions[1].completed
    /\ game.leaderboard[2] = game.gameSessions[1].player
    /\ RankedLetters(1) > RankedLetters(2)
    /\ RankedLetters(2) > 0
    /\ gameCall.fn = "completeGame" /\ gameCall.error = "none"
    /\ gameCall.sender = game.leaderboard[1]
    /\ game.playerScores[game.leaderboard[1]].gamesPlayed = 2

\* C33: the leaderboard has no duplicate players and at most the
\* configured number of entries, leaderboardPosition of the player at
\* index i (from 0) is i + 1, and leaderboardPosition is 0 for every
\* player who is not in the array.
C33_LeaderboardIndexConsistent ==
    /\ Len(game.leaderboard) <= limits.board
    /\ \A i, j \in 1..Len(game.leaderboard) :
          i # j => game.leaderboard[i] # game.leaderboard[j]
    /\ \A i \in 1..Len(game.leaderboard) :
          game.leaderboardPosition[game.leaderboard[i]] = i
    /\ \A p \in Players :
          (\A i \in 1..Len(game.leaderboard) : game.leaderboard[i] # p)
             => game.leaderboardPosition[p] = 0

\* the leaderboard is full and a player who was on it has been replaced
\* by the sender of the last completeGame
C33_Witness ==
    /\ Len(game.leaderboard) = limits.board
    /\ limits.board < limits.players
    /\ gameCall.fn = "completeGame" /\ gameCall.error = "none"
    /\ game.leaderboardPosition[gameCall.sender] > 0
    /\ game.playerScores[gameCall.sender].gamesPlayed = 1
    /\ \A p \in Callers : game.playerScores[p].gamesPlayed = 1

\* C36: for every completed session, the stored totalLetters equals the
\* number of letters that submitLetter recorded for the session.
C36_ScoreBackedByLetters ==
    \A n \in 1..game.currentGameSession :
        game.gameSessions[n].completed
           => game.gameSessions[n].totalLetters
                = Len(game.gameSessionLetters[n])

\* C32: submitLetter is called only by handleInputChange, and only when
\* the input grew, is no longer than the current word, and its last
\* character equals the word's character at that index; the letter
\* submitted is that character.
C32_OnlyMatchingKeystrokes ==
    [][typingCall'.submitted # <<>>
          => LET value == typingCall'.value
                 word == CurrentWord(localGameState)
             IN /\ typingCall'.fn = "handleInputChange"
                /\ typingCall'.active
                /\ Len(value) > Len(localGameState.typedInput)
                /\ Len(value) <= Len(word)
                /\ value[Len(value)] = word[Len(value)]
                /\ typingCall'.submitted = <<word[Len(value)]>>
      ]_vars

\* the second letter of the current word was submitted after a first
\* character that does not match, and the input is kept
C32_Witness ==
    /\ typingCall.fn = "handleInputChange"
    /\ typingCall.submitted = <<"b">>
    /\ typingCall.value = <<"b", "b">>
    /\ CurrentWord(localGameState) = <<"a", "b">>
    /\ localGameState.typedInput = <<"b", "b">>
    /\ wordCalls = 1

\* C37: the calls of submitLetter made for the current word never exceed
\* the word's length.
C37_AtMostOneCallPerPosition ==
    [][typingCall'.submitted # <<>>
          => wordCalls + 1 <= Len(CurrentWord(localGameState))
      ]_vars

\* the completion barrier of the session whose handle is set finishes in
\* this step: a completeGame record of that session exists and the step
\* ends the draining
BarrierOfHandleFinishes ==
    /\ gameState.isCompleting /\ ~gameState'.isCompleting
    /\ \E k \in Ids :
          /\ transactions[k].type = "completeGame"
          /\ transactions[k].gameSession = gameState.gameSession

\* C34: a session handle that is set is neither cleared nor replaced
\* except by the step that finishes the completion barrier of the same
\* session or by resetGame.
C34_HandleKeptUntilBarrier ==
    [][(~NoSession(gameState)
        /\ gameState'.gameSession # gameState.gameSession)
          => \/ ResetStep
             \/ BarrierOfHandleFinishes /\ NoSession(gameState')
      ]_vars

\* the dispatch of letter record k fails in this step
LetterDispatchFails(k) ==
    /\ transactions[k].type = "letter"
    /\ tasks[k].pc # "err" /\ tasks'[k].pc = "err"

\* a session newer than the one of record k is running: the game is active
\* after the countdown of a startGame call made after record k
NewerSessionRuns(k) ==
    /\ gameState.isActive /\ gameState.countdown = 0
    /\ ~gameState.isCompleting
    /\ \E j \in Ids : j > k /\ transactions[j].type = "startGame"

\* C35: the failing dispatch of a letter record of an earlier session leaves
\* the optimistic letter count of the session that runs now unchanged.
C35_RollbackScopedToSession ==
    [][\A k \in Ids :
          LetterDispatchFails(k) /\ NewerSessionRuns(k)
             => gameState'.localLetterCount = gameState.localLetterCount
      ]_vars

====
